---- MODULE Spec2Model ----
(***************************************************************************)
(* Model of main.py: a Streamlit script that loads per-school environment  *)
(* CSV files and a growth workbook from the data directory, stops when     *)
(* either is missing, and renders three tabs of aggregates.  One run of    *)
(* the script is a sequence of steps (pc); a rerun re-executes the script  *)
(* against the st.cache_data caches.                                       *)
(***************************************************************************)
EXTENDS Integers, Sequences, FiniteSets, TLC

VARIABLES
    dir,              \* DATA_DIR listing, in iterdir() order: [name, kind, data]
    target,           \* target_name handed to find_file_by_name
    xlsx_path,        \* result of find_file_by_name: None or Some(entry)
    EC_INFO,          \* module-level dict school -> target EC
    env_cache,        \* st.cache_data store of load_environment_data
    growth_cache,     \* st.cache_data store of load_growth_data
    pc,               \* position of the script run
    errors,           \* st.error messages and uncaught exceptions of this run
    env_data,         \* script variable env_data
    growth_data,      \* script variable growth_data
    widget,           \* session state of the sidebar selectbox
    selected_school,  \* value returned by st.sidebar.selectbox
    tab1,             \* overview outputs of this run
    tab2,             \* environment tab outputs of this run
    tab3,             \* growth tab outputs of this run
    first_run         \* history: outputs of the first finished run

vars == << dir, target, xlsx_path, EC_INFO, env_cache, growth_cache, pc, errors,
           env_data, growth_data, widget, selected_school, tab1, tab2, tab3,
           first_run >>

\* ------------------------------------------------------------------ bounds
MaxEntries == 3
MaxRows == 2
MaxSheets == 2

\* ------------------------------------------------------------ option values
None == <<>>
Some(x) == << x >>
Get(o) == o[1]

\* ------------------------------------------------------- strings, Unicode
\* A string is a sequence of code points.  Hangul syllables are precomposed
\* code points (upper case names); their canonical decomposition is a
\* sequence of conjoining jamo (L_ leading, V_ vowel, T_ trailing).
Decomposition ==
    [ SONG   |-> << "L_s", "V_o", "T_ng" >>,
      DO     |-> << "L_d", "V_o" >>,
      GO     |-> << "L_g", "V_o" >>,
      HA     |-> << "L_h", "V_a" >>,
      NEUL   |-> << "L_n", "V_eu", "T_l" >>,
      A      |-> << "L_x", "V_a" >>,
      RA     |-> << "L_r", "V_a" >>,
      DONG   |-> << "L_d", "V_o", "T_ng" >>,
      SAN    |-> << "L_s", "V_a", "T_n" >>,
      HWAN   |-> << "L_h", "V_wa", "T_n" >>,
      GYEONG |-> << "L_g", "V_yeo", "T_ng" >>,
      DE     |-> << "L_d", "V_e" >>,
      I      |-> << "L_x", "V_i" >>,
      TEO    |-> << "L_t", "V_eo" >>,
      GAE    |-> << "L_g", "V_ae" >>,
      GYO    |-> << "L_g", "V_yo" >>,
      SAENG  |-> << "L_s", "V_ae", "T_ng" >>,
      YUK    |-> << "L_x", "V_yu", "T_g" >>,
      GYEOL  |-> << "L_g", "V_yeo", "T_l" >>,
      GWA    |-> << "L_g", "V_wa" >> ]

Syllables == DOMAIN Decomposition

RECURSIVE Decompose(_)
Decompose(s) ==
    IF s = << >> THEN << >>
    ELSE (IF Head(s) \in Syllables THEN Decomposition[Head(s)] ELSE << Head(s) >>)
         \o Decompose(Tail(s))

\* The syllable whose decomposition is the first n code points of s, if any.
ComposedAt(s, n) ==
    IF Len(s) < n THEN {}
    ELSE { y \in Syllables : Decomposition[y] = SubSeq(s, 1, n) }

RECURSIVE Compose(_)
Compose(s) ==
    IF s = << >> THEN << >>
    ELSE IF ComposedAt(s, 3) # {}
         THEN << CHOOSE y \in ComposedAt(s, 3) : TRUE >> \o Compose(SubSeq(s, 4, Len(s)))
    ELSE IF ComposedAt(s, 2) # {}
         THEN << CHOOSE y \in ComposedAt(s, 2) : TRUE >> \o Compose(SubSeq(s, 3, Len(s)))
    ELSE << Head(s) >> \o Compose(Tail(s))

\* unicodedata.normalize(form, s)
normalize(form, s) ==
    IF form = "NFD" THEN Decompose(s) ELSE Compose(Decompose(s))

\* str.lower() on the code points that occur in file names
LowerOf(c) ==
    CASE c = "C" -> "c"
      [] c = "S" -> "s"
      [] c = "V" -> "v"
      [] c = "X" -> "x"
      [] c = "L" -> "l"
      [] OTHER -> c

lower(s) == [ i \in 1..Len(s) |-> LowerOf(s[i]) ]

\* str.rfind("."): index of the last dot, 0 when there is none
rfind_dot(s) ==
    LET dots == { i \in 1..Len(s) : s[i] = "." }
    IN  IF dots = {} THEN 0 ELSE CHOOSE i \in dots : \A j \in dots : j <= i

\* pathlib: Path.suffix and Path.stem
suffix(name) ==
    LET i == rfind_dot(name)
    IN  IF 1 < i /\ i < Len(name) THEN SubSeq(name, i, Len(name)) ELSE << >>

stem(name) ==
    LET i == rfind_dot(name)
    IN  IF 1 < i /\ i < Len(name) THEN SubSeq(name, 1, i - 1) ELSE name

StartsWith(s, t) == Len(t) <= Len(s) /\ SubSeq(s, 1, Len(t)) = t

\* str.replace(old, ""): every non-overlapping occurrence, left to right
RECURSIVE replace_with_empty(_, _)
replace_with_empty(s, old) ==
    IF s = << >> THEN << >>
    ELSE IF StartsWith(s, old)
         THEN replace_with_empty(SubSeq(s, Len(old) + 1, Len(s)), old)
    ELSE << Head(s) >> \o replace_with_empty(Tail(s), old)

\* ------------------------------------------------------- names of main.py
Songdo  == << "SONG", "DO", "GO" >>
Haneul  == << "HA", "NEUL", "GO" >>
Ara     == << "A", "RA", "GO" >>
Dongsan == << "DONG", "SAN", "GO" >>
All     == << "ALL" >>

EnvToken == << "_", "HWAN", "GYEONG", "DE", "I", "TEO" >>

WorkbookName ==
    << "4", "GAE", "GYO", "_", "SAENG", "YUK", "GYEOL", "GWA", "DE", "I", "TEO",
       ".", "x", "l", "s", "x" >>

EC_TABLE == (Songdo :> 1) @@ (Haneul :> 2) @@ (Ara :> 4) @@ (Dongsan :> 8)

\* ------------------------------------------------------------ File Resolver
\* find_from without the is_file() test
RECURSIVE find_from_any_entry(_, _, _, _)
find_from_any_entry(directory, i, target_nfc, target_nfd) ==
    IF i > Len(directory) THEN None
    ELSE IF normalize("NFC", directory[i].name) = target_nfc
            \/ normalize("NFD", directory[i].name) = target_nfd
         THEN Some(directory[i])
         ELSE find_from_any_entry(directory, i + 1, target_nfc, target_nfd)

\* First matching entry from position i on (the for loop of find_file_by_name).
RECURSIVE find_from(_, _, _, _)
find_from(directory, i, target_nfc, target_nfd) ==
    IF i > Len(directory) THEN None
    ELSE LET p == directory[i]
             name_nfc == normalize("NFC", p.name)
             name_nfd == normalize("NFD", p.name)
         IN  IF p.kind # "file"
             THEN find_from(directory, i + 1, target_nfc, target_nfd)
             ELSE IF name_nfc = target_nfc \/ name_nfd = target_nfd
                  THEN Some(p)
                  ELSE find_from(directory, i + 1, target_nfc, target_nfd)

find_file_by_name(directory, target_name) ==
    find_from(directory, 1, normalize("NFC", target_name),
              normalize("NFD", target_name))

\* ------------------------------------------------- tables and dictionaries
\* A table (DataFrame) is a sequence of rows, a row a record of its columns.
\* A dict is the sequence of its items [key, value] in insertion order.
dict_keys(items) == [ i \in 1..Len(items) |-> items[i].key ]

has_key(items, k) == \E i \in 1..Len(items) : items[i].key = k

dict_set(items, k, v) ==
    IF has_key(items, k)
    THEN [ i \in 1..Len(items) |->
             IF items[i].key = k THEN [ key |-> k, value |-> v ] ELSE items[i] ]
    ELSE Append(items, [ key |-> k, value |-> v ])

dict_get(items, k) ==
    items[CHOOSE i \in 1..Len(items) : items[i].key = k].value

\* df["school"] = school: the column is added, or overwritten, in every row
with_school(table, school) ==
    [ i \in 1..Len(table) |-> [ school |-> school ] @@ table[i] ]

\* pd.concat(d.values()): a new table, the tables' rows in dict order
RECURSIVE concat(_)
concat(items) ==
    IF items = << >> THEN << >> ELSE Head(items).value \o concat(Tail(items))

\* Values of the script variables env_data and growth_data.
Unset == [ tag |-> "unset", items |-> << >> ]
PyNone == [ tag |-> "none", items |-> << >> ]
Dict(items) == [ tag |-> "dict", items |-> items ]

\* A call of a loader: the value returned, or the exception raised.
Returned(v) == [ exc |-> "", value |-> v ]
Raised(e) == [ exc |-> e, value |-> Unset ]

\* ------------------------------------------------------- Environment Loader
DotCsv == << ".", "c", "s", "v" >>

\* The for loop of load_environment_data from entry i on; acc is env_data.
RECURSIVE load_environment_from(_, _, _)
load_environment_from(files, i, acc) ==
    IF i > Len(files) THEN Returned(acc)
    ELSE LET f == files[i]
         IN  IF lower(suffix(f.name)) # DotCsv
             THEN load_environment_from(files, i + 1, acc)
             ELSE IF f.kind # "file"
                  THEN Raised("IsADirectoryError")
                  ELSE LET school == replace_with_empty(stem(f.name), EnvToken)
                           df == with_school(f.data, school)
                       IN  load_environment_from(files, i + 1,
                                                 dict_set(acc, school, df))

load_environment_data(files) ==
    LET r == load_environment_from(files, 1, << >>)
    IN  IF r.exc # "" THEN r
        ELSE IF r.value = << >> THEN Returned(PyNone)
        ELSE Returned(Dict(r.value))

\* ------------------------------------------------------------ Growth Loader
\* The for loop over xls.sheet_names from sheet i on; acc is growth.
RECURSIVE load_sheets_from(_, _, _)
load_sheets_from(sheets, i, acc) ==
    IF i > Len(sheets) THEN acc
    ELSE load_sheets_from(sheets, i + 1,
             dict_set(acc, sheets[i].name,
                      with_school(sheets[i].rows, sheets[i].name)))

load_growth_data(path) ==
    IF path = None THEN Returned(PyNone)
    ELSE Returned(Dict(load_sheets_from(Get(path).data, 1, << >>)))

\* --------------------------------------------------------------- Aggregator
RECURSIVE column_sum(_, _)
column_sum(table, col) ==
    IF table = << >> THEN 0 ELSE Head(table)[col] + column_sum(Tail(table), col)

\* Series.mean() as the exact quotient sum / n; n = 0 is NaN.
mean(table, col) == [ sum |-> column_sum(table, col), n |-> Len(table) ]

\* a > b for two means that are not NaN
mean_gt(a, b) == a.sum * b.n > b.sum * a.n

\* EC_INFO.items() iterates in insertion order
SchoolOrder == << Songdo, Haneul, Ara, Dongsan >>

school_options == << All >> \o SchoolOrder

\* tab1: ec_table, total_plants and the metric cards
ec_table(growth, ec_info) ==
    [ i \in 1..Len(SchoolOrder) |->
        LET school == SchoolOrder[i]
        IN  [ school |-> school,
              ec |-> ec_info[school],
              count |-> IF has_key(growth, school)
                        THEN Len(dict_get(growth, school)) ELSE 0 ] ]

RECURSIVE total_count(_)
total_count(rows) ==
    IF rows = << >> THEN 0 ELSE Head(rows).count + total_count(Tail(rows))

overview(env, growth, ec_info) ==
    LET all_env == concat(env)
        table == ec_table(growth, ec_info)
    IN  [ ec_table |-> table,
          total_plants |-> total_count(table),
          temperature |-> mean(all_env, "temperature"),
          humidity |-> mean(all_env, "humidity"),
          best_ec |-> 2,
          best_school |-> Haneul ]

\* avg_rows averaging the rows of all schools in every row
avg_rows_pooled(env, ec_info) ==
    [ i \in 1..Len(env) |->
        LET school == env[i].key
            df == concat(env)
        IN  [ school |-> school,
              temperature |-> mean(df, "temperature"),
              humidity |-> mean(df, "humidity"),
              ph |-> mean(df, "ph"),
              ec |-> mean(df, "ec"),
              target_ec |-> IF school \in DOMAIN ec_info
                            THEN Some(ec_info[school]) ELSE None ] ]

\* tab2: one row of averages per item of env_data
avg_rows(env, ec_info) ==
    [ i \in 1..Len(env) |->
        LET school == env[i].key
            df == env[i].value
        IN  [ school |-> school,
              temperature |-> mean(df, "temperature"),
              humidity |-> mean(df, "humidity"),
              ph |-> mean(df, "ph"),
              ec |-> mean(df, "ec"),
              target_ec |-> IF school \in DOMAIN ec_info
                            THEN Some(ec_info[school]) ELSE None ] ]

\* tab2: the time-series figure of the selected school
time_series(env, ec_info, school) ==
    [ df |-> dict_get(env, school), hline |-> ec_info[school] ]

\* tab3: growth_all["EC"] = growth_all["school"].map(EC_INFO); NaN is None
with_EC(table, ec_info) ==
    [ i \in 1..Len(table) |->
        [ EC |-> IF table[i].school \in DOMAIN ec_info
                 THEN Some(ec_info[table[i].school]) ELSE None ] @@ table[i] ]

\* The keys of groupby("EC"): the EC values present, NaN dropped, ascending
RECURSIVE ascending(_)
ascending(S) ==
    IF S = {} THEN << >>
    ELSE LET m == CHOOSE x \in S : \A y \in S : x <= y
         IN  << m >> \o ascending(S \ {m})

group_keys(table) ==
    ascending({ Get(table[i].EC) : i \in { j \in 1..Len(table) : table[j].EC # None } })

group_rows(table, e) ==
    LET InGroup(r) == r.EC = Some(e) IN SelectSeq(table, InGroup)

\* groupby("EC")[col].mean().reset_index()
group_mean(table, col) ==
    LET keys == group_keys(table)
    IN  [ i \in 1..Len(keys) |->
            [ EC |-> keys[i], value |-> mean(group_rows(table, keys[i]), col) ] ]

\* groupby("EC").size().reset_index(name="count")
group_size(table) ==
    LET keys == group_keys(table)
    IN  [ i \in 1..Len(keys) |->
            [ EC |-> keys[i], count |-> Len(group_rows(table, keys[i])) ] ]

\* idxmax_from keeping the last of several maximal values
RECURSIVE idxmax_last_from(_, _, _)
idxmax_last_from(series, j, best) ==
    IF j > Len(series) THEN best
    ELSE idxmax_last_from(series, j + 1,
                          IF mean_gt(series[best].value, series[j].value)
                          THEN best ELSE j)

\* Series.idxmax(): scan from position j with the best position so far; a later
\* value replaces the best only when it is strictly greater
RECURSIVE idxmax_from(_, _, _)
idxmax_from(series, j, best) ==
    IF j > Len(series) THEN best
    ELSE idxmax_from(series, j + 1,
                     IF mean_gt(series[j].value, series[best].value) THEN j ELSE best)

idxmax(series) == idxmax_from(series, 2, 1)

growth_results(growth, ec_info) ==
    LET growth_all == with_EC(concat(growth), ec_info)
        avg_weight == group_mean(growth_all, "fresh_weight_g")
    IN  IF avg_weight = << >> THEN Raised("ValueError")
        ELSE Returned(
               [ best_ec |-> avg_weight[idxmax(avg_weight)].EC,
                 fresh_weight_g |-> avg_weight,
                 leaf_count |-> group_mean(growth_all, "leaf_count"),
                 shoot_length_mm |-> group_mean(growth_all, "shoot_length_mm"),
                 count |-> group_size(growth_all),
                 growth_all |-> growth_all ])

\* ------------------------------------------------------ the data directory
File(name, data) == [ name |-> name, kind |-> "file", data |-> data ]
Directory(name) == [ name |-> name, kind |-> "dir", data |-> << >> ]

SeqsUpTo(S, n) == UNION { [ 1..k -> S ] : k \in 0..n }

DistinctNames(d) == \A i, j \in 1..Len(d) : i # j => d[i].name # d[j].name

EnvRowSet ==
    { [ time |-> 1, temperature |-> 20, humidity |-> 50, ph |-> 6, ec |-> 1 ],
      [ time |-> 2, temperature |-> 24, humidity |-> 65, ph |-> 7, ec |-> 3 ] }

GrowthRowSet ==
    { [ fresh_weight_g |-> 1, leaf_count |-> 2, shoot_length_mm |-> 10 ],
      [ fresh_weight_g |-> 3, leaf_count |-> 5, shoot_length_mm |-> 40 ] }

GrowthRow(w) == [ fresh_weight_g |-> w, leaf_count |-> w + 1, shoot_length_mm |-> 10 * w ]

EnvTables == SeqsUpTo(EnvRowSet, MaxRows)
\* Growth tables list their rows by ascending weight: the order of the rows of
\* a sheet decides nothing but the order of the rows shown
GrowthTables ==
    { t \in SeqsUpTo(GrowthRowSet, MaxRows) :
        \A i \in 1..(Len(t) - 1) : t[i].fresh_weight_g <= t[i + 1].fresh_weight_g }

Memo == << "m", "e", "m", "o" >>
SheetNames == { Songdo, Haneul, Memo }

\* Workbooks: one to MaxSheets sheets with distinct names
Books ==
    { b \in SeqsUpTo([ name : SheetNames, rows : GrowthTables ], MaxSheets) :
        Len(b) >= 1 /\ DistinctNames(b) }

EnvTable1 ==
    << [ time |-> 1, temperature |-> 20, humidity |-> 50, ph |-> 6, ec |-> 1 ],
       [ time |-> 2, temperature |-> 24, humidity |-> 65, ph |-> 7, ec |-> 3 ] >>
EnvTable2 ==
    << [ time |-> 1, temperature |-> 22, humidity |-> 40, ph |-> 5, ec |-> 2 ] >>

\* Haneul (EC 2.0) has the heaviest plants
Book1 == << [ name |-> Songdo, rows |-> << GrowthRow(1) >> ],
            [ name |-> Haneul, rows |-> << GrowthRow(3), GrowthRow(5) >> ] >>
\* Songdo (EC 1.0) has the heaviest plants
Book2 == << [ name |-> Haneul, rows |-> << GrowthRow(2) >> ],
            [ name |-> Songdo, rows |-> << GrowthRow(4) >> ] >>
\* Per-EC mean fresh weights {1.0: 2.0, 2.0: 5.0, 4.0: 3.0, 8.0: 1.0}
ExampleBook ==
    << [ name |-> Dongsan, rows |-> << GrowthRow(1) >> ],
       [ name |-> Songdo, rows |-> << GrowthRow(1), GrowthRow(3) >> ],
       [ name |-> Ara, rows |-> << GrowthRow(3) >> ],
       [ name |-> Haneul, rows |-> << GrowthRow(5) >> ] >>

EnvCsv(school) == school \o EnvToken \o DotCsv
SongdoCsv == EnvCsv(Songdo)
HaneulUpperCsv == Haneul \o << ".", "C", "S", "V" >>
AraTokenInsideCsv == Ara \o EnvToken \o << "_", "v" >> \o DotCsv
SongdoPlainCsv == Songdo \o DotCsv
BackupCsv == << "o", "l", "d", ".", "c", "s", "v" >>
WorkbookNFD == Decompose(WorkbookName)

ListingEntries ==
    { File(SongdoCsv, EnvTable1), File(HaneulUpperCsv, EnvTable2),
      File(AraTokenInsideCsv, EnvTable2), File(SongdoPlainCsv, EnvTable2),
      Directory(BackupCsv),
      File(WorkbookName, Book1), File(WorkbookNFD, Book2),
      Directory(WorkbookName) }

\* Listings that vary the entries and their order
Listings ==
    { d \in SeqsUpTo(ListingEntries, MaxEntries) : DistinctNames(d) }

\* Directories that vary the rows of two schools' environment files
EnvDirs ==
    { << File(SongdoCsv, t1), File(HaneulUpperCsv, t2), File(WorkbookName, Book1) >> :
        t1 \in EnvTables, t2 \in EnvTables }

\* Directories that vary the sheets of the workbook
GrowthDirs ==
    { << File(SongdoCsv, EnvTable1), File(WorkbookName, b) >> : b \in Books }

\* The complete data set: four environment files and a four-sheet workbook
FullDir ==
    << File(EnvCsv(Songdo), EnvTable1), File(EnvCsv(Haneul), EnvTable2),
       File(EnvCsv(Ara), EnvTable1), File(EnvCsv(Dongsan), EnvTable2),
       File(WorkbookNFD, ExampleBook) >>

Directories == Listings \cup EnvDirs \cup GrowthDirs \cup { FullDir }

\* ------------------------------------------------------------ the script
NoCache == [ hit |-> FALSE, value |-> Unset ]
Cached(v) == [ hit |-> TRUE, value |-> v ]
NoTab2 == [ avg_rows |-> None, fig_ts |-> None, all_env_table |-> None ]

ScriptStart ==
    /\ pc = "load_env"
    /\ errors = << >>
    /\ env_data = Unset
    /\ growth_data = Unset
    /\ selected_school = None
    /\ tab1 = None
    /\ tab2 = NoTab2
    /\ tab3 = None

Init ==
    /\ dir \in Directories
    /\ target = WorkbookName
    /\ xlsx_path = None
    /\ EC_INFO = EC_TABLE
    /\ env_cache = NoCache
    /\ growth_cache = NoCache
    /\ widget = All
    /\ first_run = None
    /\ ScriptStart

\* Streamlit replays a cached function's st.error on a cache hit.
env_messages(v) == IF v = PyNone THEN << "MissingEnvironmentData" >> ELSE << >>
growth_messages(v) == IF v = PyNone THEN << "MissingGrowthWorkbook" >> ELSE << >>

\* env_data = load_environment_data()
LoadEnvironment ==
    /\ pc = "load_env"
    /\ LET r == IF env_cache.hit THEN Returned(env_cache.value)
                ELSE load_environment_data(dir)
       IN  IF r.exc # ""
           THEN /\ pc' = "crashed"
                /\ errors' = Append(errors, r.exc)
                /\ UNCHANGED << env_data, env_cache >>
           ELSE /\ pc' = "load_growth"
                /\ errors' = errors \o env_messages(r.value)
                /\ env_data' = r.value
                /\ env_cache' = Cached(r.value)
    /\ UNCHANGED << dir, target, xlsx_path, EC_INFO, growth_cache, growth_data,
                    widget, selected_school, tab1, tab2, tab3, first_run >>

\* growth_data = load_growth_data()
LoadGrowth ==
    /\ pc = "load_growth"
    /\ LET path == find_file_by_name(dir, WorkbookName)
           r == IF growth_cache.hit THEN Returned(growth_cache.value)
                ELSE load_growth_data(path)
       IN  /\ xlsx_path' = IF growth_cache.hit THEN xlsx_path ELSE path
           /\ errors' = errors \o growth_messages(r.value)
           /\ growth_data' = r.value
           /\ growth_cache' = Cached(r.value)
    /\ pc' = "gate"
    /\ UNCHANGED << dir, target, EC_INFO, env_cache, env_data, widget,
                    selected_school, tab1, tab2, tab3, first_run >>

\* Gate stopping only when both mappings are None
GateBothMissing ==
    /\ pc = "gate"
    /\ pc' = IF env_data = PyNone /\ growth_data = PyNone THEN "stopped" ELSE "sidebar"
    /\ UNCHANGED << dir, target, xlsx_path, EC_INFO, env_cache, growth_cache, errors,
                    env_data, growth_data, widget, selected_school, tab1, tab2,
                    tab3, first_run >>

\* if env_data is None or growth_data is None: st.stop()
Gate ==
    /\ pc = "gate"
    /\ pc' = IF env_data = PyNone \/ growth_data = PyNone THEN "stopped" ELSE "sidebar"
    /\ UNCHANGED << dir, target, xlsx_path, EC_INFO, env_cache, growth_cache, errors,
                    env_data, growth_data, widget, selected_school, tab1, tab2,
                    tab3, first_run >>

\* selected_school = st.sidebar.selectbox(...): the widget's current value
Sidebar ==
    /\ pc = "sidebar"
    /\ selected_school' = Some(widget)
    /\ pc' = "tab1"
    /\ UNCHANGED << dir, target, xlsx_path, EC_INFO, env_cache, growth_cache, errors,
                    env_data, growth_data, widget, tab1, tab2, tab3, first_run >>

Tab1 ==
    /\ pc = "tab1"
    /\ tab1' = Some(overview(env_data.items, growth_data.items, EC_INFO))
    /\ pc' = "tab2"
    /\ UNCHANGED << dir, target, xlsx_path, EC_INFO, env_cache, growth_cache, errors,
                    env_data, growth_data, widget, selected_school, tab2, tab3,
                    first_run >>

Tab2 ==
    /\ pc = "tab2"
    /\ LET rows == avg_rows(env_data.items, EC_INFO)
           school == Get(selected_school)
       IN  IF school # All /\ ~has_key(env_data.items, school)
           THEN /\ tab2' = [ avg_rows |-> Some(rows), fig_ts |-> None,
                             all_env_table |-> None ]
                /\ errors' = Append(errors, "KeyError")
                /\ pc' = "crashed"
           ELSE /\ tab2' = [ avg_rows |-> Some(rows),
                             fig_ts |-> IF school = All THEN None
                                        ELSE Some(time_series(env_data.items,
                                                              EC_INFO, school)),
                             all_env_table |-> Some(concat(env_data.items)) ]
                /\ errors' = errors
                /\ pc' = "tab3"
    /\ UNCHANGED << dir, target, xlsx_path, EC_INFO, env_cache, growth_cache,
                    env_data, growth_data, widget, selected_school, tab1, tab3,
                    first_run >>

\* Tab3 writing the EC column into the loaded tables instead of a copy
Tab3InPlace ==
    /\ pc = "tab3"
    /\ LET r == growth_results(growth_data.items, EC_INFO)
       IN  IF r.exc # ""
           THEN /\ tab3' = None
                /\ errors' = Append(errors, r.exc)
                /\ pc' = "crashed"
           ELSE /\ tab3' = Some(r.value)
                /\ errors' = errors
                /\ pc' = "done"
    /\ growth_data' =
          Dict([ i \in 1..Len(growth_data.items) |->
                   [ key |-> growth_data.items[i].key,
                     value |-> with_EC(growth_data.items[i].value, EC_INFO) ] ])
    /\ UNCHANGED << dir, target, xlsx_path, EC_INFO, env_cache, growth_cache,
                    env_data, widget, selected_school, tab1, tab2, first_run >>

Tab3 ==
    /\ pc = "tab3"
    /\ LET r == growth_results(growth_data.items, EC_INFO)
       IN  IF r.exc # ""
           THEN /\ tab3' = None
                /\ errors' = Append(errors, r.exc)
                /\ pc' = "crashed"
           ELSE /\ tab3' = Some(r.value)
                /\ errors' = errors
                /\ pc' = "done"
    /\ UNCHANGED << dir, target, xlsx_path, EC_INFO, env_cache, growth_cache,
                    env_data, growth_data, widget, selected_school, tab1, tab2,
                    first_run >>

\* What a run shows apart from the time-series figure
Shown ==
    [ tab1 |-> tab1, avg_rows |-> tab2.avg_rows,
      all_env_table |-> tab2.all_env_table, tab3 |-> tab3 ]

\* The script runs again from the top: after the user picks a value in the
\* selectbox (when the run showed it), or on a manual rerun.
Rerun ==
    /\ pc \in { "done", "crashed", "stopped" }
    /\ \E s \in { school_options[i] : i \in 1..Len(school_options) } :
          widget' = IF selected_school = None THEN widget ELSE s
    /\ first_run' = IF first_run = None THEN Some(Shown) ELSE first_run
    /\ pc' = "load_env"
    /\ errors' = << >>
    /\ env_data' = Unset
    /\ growth_data' = Unset
    /\ selected_school' = None
    /\ tab1' = None
    /\ tab2' = NoTab2
    /\ tab3' = None
    /\ UNCHANGED << dir, target, xlsx_path, EC_INFO, env_cache, growth_cache >>

Next ==
    \/ LoadEnvironment
    \/ LoadGrowth
    \/ Gate
    \/ Sidebar
    \/ Tab1
    \/ Tab2
    \/ Tab3
    \/ Rerun

Spec == Init /\ [][Next]_vars

\* ------------------------------------------- the File Resolver on its own
WorkbookMixed == Decompose(SubSeq(WorkbookName, 1, 2)) \o SubSeq(WorkbookName, 3, 16)
OtherXlsx == Songdo \o << ".", "x", "l", "s", "x" >>

ResolverNames ==
    { WorkbookName, WorkbookNFD, WorkbookMixed, OtherXlsx, Decompose(OtherXlsx) }

ResolverEntries ==
    { File(n, << >>) : n \in ResolverNames } \cup { Directory(n) : n \in ResolverNames }

ResolverTargets == { WorkbookName, WorkbookNFD, WorkbookMixed, OtherXlsx }

InitResolver ==
    /\ dir \in { d \in SeqsUpTo(ResolverEntries, MaxEntries) : DistinctNames(d) }
    /\ target \in ResolverTargets
    /\ xlsx_path = None
    /\ EC_INFO = EC_TABLE
    /\ env_cache = NoCache
    /\ growth_cache = NoCache
    /\ widget = All
    /\ first_run = None
    /\ pc = "resolve"
    /\ errors = << >>
    /\ env_data = Unset
    /\ growth_data = Unset
    /\ selected_school = None
    /\ tab1 = None
    /\ tab2 = NoTab2
    /\ tab3 = None

\* One call find_file_by_name(directory, target_name)
Resolve ==
    /\ pc = "resolve"
    /\ xlsx_path' = find_file_by_name(dir, target)
    /\ pc' = "resolved"
    /\ UNCHANGED << dir, target, EC_INFO, env_cache, growth_cache, errors, env_data,
                    growth_data, widget, selected_school, tab1, tab2, tab3,
                    first_run >>

NextResolver == Resolve

SpecResolver == InitResolver /\ [][NextResolver]_vars

\* ------------------------------------------------------------------ claims
Indices(q) == 1..Len(q)

RECURSIVE SetSum(_, _)
\* The sum of weight[x] over the elements x of S
SetSum(S, weight) ==
    IF S = {} THEN 0
    ELSE LET x == CHOOSE y \in S : TRUE
         IN  weight[x] + SetSum(S \ {x}, weight)

Rendering == { "sidebar", "tab1", "tab2", "tab3", "done" }
AnythingRendered == tab1 # None \/ tab2 # NoTab2 \/ tab3 # None

\* The data directory holds no entry with the extension .csv in any case
ZeroEligible == \A i \in Indices(dir) : lower(suffix(dir[i].name)) # DotCsv

\* The data directory holds a regular file named as the workbook, in any form
WorkbookPresent ==
    \E i \in Indices(dir) :
        dir[i].kind = "file" /\ Decompose(dir[i].name) = Decompose(WorkbookName)

\* C1: when the Environment Loader finds no eligible file or the Growth Loader
\* does not find the workbook, the loader returns None and the run stops at
\* the gate: no view is rendered, and no step past the gate is ever reached
\* with env_data or growth_data equal to None.
FailFastGate ==
    /\ (env_data.tag # "unset" /\ ZeroEligible) => env_data = PyNone
    /\ (growth_data.tag # "unset" /\ ~WorkbookPresent) => growth_data = PyNone
    /\ (env_data = PyNone \/ growth_data = PyNone) =>
          /\ pc \in { "load_growth", "gate", "stopped" }
          /\ ~AnythingRendered
          /\ selected_school = None
    /\ (pc \in Rendering \/ AnythingRendered) =>
          env_data.tag = "dict" /\ growth_data.tag = "dict"

\* A run stopped at the gate because no environment file was eligible, although
\* the workbook was found
FailFastGateWitness ==
    /\ pc = "stopped"
    /\ ZeroEligible /\ env_data = PyNone
    /\ WorkbookPresent /\ growth_data.tag = "dict"

\* Either normalized form of either side equals the other
SameName(a, b) ==
    \/ normalize("NFC", a) = normalize("NFC", b)
    \/ normalize("NFD", a) = normalize("NFD", b)
    \/ normalize("NFC", a) = normalize("NFD", b)
    \/ normalize("NFD", a) = normalize("NFC", b)

Matching == { i \in Indices(dir) : dir[i].kind = "file" /\ SameName(dir[i].name, target) }

\* C2: find_file_by_name returns the first regular file of the directory whose
\* name equals the target under NFC or NFD normalization, and None exactly
\* when the directory holds no such file.
ResolverFindsFirstMatch ==
    pc = "resolved" =>
        IF Matching = {} THEN xlsx_path = None
        ELSE /\ xlsx_path # None
             /\ Get(xlsx_path) = dir[CHOOSE i \in Matching : \A j \in Matching : i <= j]

\* Several files match, a matching directory comes first, and the file returned
\* is spelled in another normalization form than the target
ResolverWitness ==
    /\ pc = "resolved"
    /\ Cardinality(Matching) >= 2
    /\ dir[1].kind = "dir" /\ SameName(dir[1].name, target)
    /\ xlsx_path # None /\ Get(xlsx_path).name # target

\* The growth records of target-EC level e, as (sheet, row) positions
RecordsOfLevel(e) ==
    { p \in UNION { { << i, j >> : j \in Indices(growth_data.items[i].value) } :
                    i \in Indices(growth_data.items) } :
        /\ growth_data.items[p[1]].key \in DOMAIN EC_TABLE
        /\ EC_TABLE[growth_data.items[p[1]].key] = e }

WeightOfLevel(e) ==
    SetSum(RecordsOfLevel(e),
           [ p \in RecordsOfLevel(e) |->
               growth_data.items[p[1]].value[p[2]].fresh_weight_g ])

LevelsPresent ==
    { e \in { EC_TABLE[k] : k \in DOMAIN EC_TABLE } : RecordsOfLevel(e) # {} }

\* mean(a) < mean(b), and mean(a) = mean(b), for levels that are present
MeanLess(a, b) ==
    WeightOfLevel(a) * Cardinality(RecordsOfLevel(b))
        < WeightOfLevel(b) * Cardinality(RecordsOfLevel(a))
MeanEqual(a, b) ==
    WeightOfLevel(a) * Cardinality(RecordsOfLevel(b))
        = WeightOfLevel(b) * Cardinality(RecordsOfLevel(a))

\* C3: best_ec is a target-EC level present in the growth data whose mean
\* fresh weight no other level exceeds, and the smallest such level; the
\* means {1.0: 2.0, 2.0: 5.0, 4.0: 3.0, 8.0: 1.0} give 2.0.
BestEcIsFirstArgMax ==
    tab3 # None =>
        LET best == Get(tab3).best_ec
        IN  /\ best \in LevelsPresent
            /\ \A e \in LevelsPresent : ~MeanLess(best, e)
            /\ \A e \in LevelsPresent : MeanEqual(best, e) => best <= e
            /\ dir = FullDir => best = 2

\* best_ec was computed where two levels tie for the maximal mean
BestEcWitness ==
    /\ tab3 # None
    /\ \E e \in LevelsPresent : e # Get(tab3).best_ec /\ MeanEqual(Get(tab3).best_ec, e)

ColumnValues(df, col) == { df[i][col] : i \in Indices(df) }

\* The sum of a column, counted value by value
ColumnTotal(df, col) ==
    SetSum(ColumnValues(df, col),
           [ v \in ColumnValues(df, col) |->
               v * Cardinality({ i \in Indices(df) : df[i][col] = v }) ])

EnvColumns == { "temperature", "humidity", "ph", "ec" }

\* C4: the averages table has exactly one row per key of env_data, in order,
\* and each row holds the arithmetic means of that school's own rows (k for
\* rows that are all k), with the school's target EC from the lookup table.
PerSchoolMeans ==
    tab2.avg_rows # None =>
        LET rows == Get(tab2.avg_rows)
            env == env_data.items
        IN  /\ Len(rows) = Len(env)
            /\ \A i, j \in Indices(rows) : i # j => rows[i].school # rows[j].school
            /\ \A i \in Indices(rows) :
                  /\ rows[i].school = env[i].key
                  /\ \A col \in EnvColumns :
                        /\ rows[i][col].n = Len(env[i].value)
                        /\ rows[i][col].sum = ColumnTotal(env[i].value, col)
                        /\ \A k \in ColumnValues(env[i].value, col) :
                              ColumnValues(env[i].value, col) = {k}
                                  => rows[i][col].sum = k * rows[i][col].n
                  /\ rows[i].target_ec =
                        IF rows[i].school \in DOMAIN EC_TABLE
                        THEN Some(EC_TABLE[rows[i].school]) ELSE None

\* Averages of two schools whose tables differ, one with rows that are not all
\* equal, one with constant rows
PerSchoolMeansWitness ==
    /\ tab2.avg_rows # None
    /\ Len(env_data.items) = 2
    /\ Cardinality(ColumnValues(env_data.items[1].value, "temperature")) = 2
    /\ Len(env_data.items[2].value) = 2
    /\ Cardinality(ColumnValues(env_data.items[2].value, "temperature")) = 1

\* C5: when the data passes the gate but no growth record belongs to a target-EC
\* level, the arg-max step yields a "no data" outcome instead of an exception.
EmptyInputIsGuarded ==
    (growth_data.tag = "dict" /\ LevelsPresent = {}) =>
        \A i \in Indices(errors) : errors[i] # "ValueError"

\* C6: a run's outputs other than the time-series figure are those of the
\* first run over the same loaded data, whatever the selector's value.
SelectorOnlyFiltersTimeSeries ==
    (pc \in { "done", "crashed" } /\ selected_school # None /\ first_run # None) =>
        Shown = Get(first_run)

\* The identifier of a file: its stem without the trailing token, or the stem
StripToken(s) ==
    IF Len(s) >= Len(EnvToken)
       /\ SubSeq(s, Len(s) - Len(EnvToken) + 1, Len(s)) = EnvToken
    THEN SubSeq(s, 1, Len(s) - Len(EnvToken)) ELSE s

\* C7: every row under key k of env_data has school = k, k being the stem,
\* without the trailing token, of the file the rows were read from; growth_data
\* has one entry per sheet and every row under k has school = k = the sheet.
SchoolTagMatchesSource ==
    /\ env_data.tag = "dict" =>
          \A i \in Indices(env_data.items) :
              LET k == env_data.items[i].key
                  df == env_data.items[i].value
              IN  /\ \A j \in Indices(df) : df[j].school = k
                  /\ \E f \in Indices(dir) :
                        /\ dir[f].kind = "file"
                        /\ lower(suffix(dir[f].name)) = DotCsv
                        /\ StripToken(stem(dir[f].name)) = k
                        /\ Len(df) = Len(dir[f].data)
                        /\ \A j \in Indices(df) :
                              \A col \in DOMAIN dir[f].data[j] :
                                  df[j][col] = dir[f].data[j][col]
    /\ growth_data.tag = "dict" =>
          LET sheets == Get(xlsx_path).data
          IN  /\ Len(growth_data.items) = Len(sheets)
              /\ \A i \in Indices(sheets) :
                    /\ growth_data.items[i].key = sheets[i].name
                    /\ Len(growth_data.items[i].value) = Len(sheets[i].rows)
                    /\ \A j \in Indices(sheets[i].rows) :
                          growth_data.items[i].value[j].school = sheets[i].name

GrowthRowsOf(v) ==
    UNION { { v.items[i].value[j] : j \in Indices(v.items[i].value) } :
            i \in Indices(v.items) }

ReadOnlyStep ==
    /\ EC_INFO' = EC_INFO
    /\ env_cache.hit => env_cache' = env_cache
    /\ growth_cache.hit => growth_cache' = growth_cache
    /\ (env_data.tag = "dict" /\ env_data'.tag # "unset") => env_data' = env_data
    /\ (growth_data.tag = "dict" /\ growth_data'.tag # "unset")
          => growth_data' = growth_data
    /\ env_data'.tag # "unset" => env_data' = env_cache'.value
    /\ growth_data'.tag # "unset" => growth_data' = growth_cache'.value
    /\ \A r \in GrowthRowsOf(growth_data') \cup GrowthRowsOf(growth_cache'.value) :
          "EC" \notin DOMAIN r
    /\ tab3' # None =>
          \A i \in Indices(Get(tab3').growth_all) :
              LET r == Get(tab3').growth_all[i]
              IN  r.EC = IF r.school \in DOMAIN EC_TABLE
                         THEN Some(EC_TABLE[r.school]) ELSE None

\* C8: no step of a render changes the loaded environment mapping, the loaded
\* growth mapping or EC_INFO; the EC column is derived anew on each render as
\* EC_INFO[school] and is never written into the loaded growth tables.
ReadOnlySnapshot == [][ReadOnlyStep]_vars

\* The growth tab rendered again on a rerun, from the cached mappings
ReadOnlyWitness ==
    /\ first_run # None
    /\ tab3 # None
    /\ Get(tab3).growth_all # << >>
    /\ growth_data = growth_cache.value

\* C9: whenever the views render, every school the selector offers is a key
\* of the loaded environment mapping.
SelectorOffersLoadedSchools ==
    pc \in Rendering =>
        \A i \in Indices(SchoolOrder) : has_key(env_data.items, SchoolOrder[i])

\* C10: the best EC shown on the overview equals the best EC computed in the
\* growth tab.
OverviewBestEcMatches ==
    (tab1 # None /\ tab3 # None) => Get(tab1).best_ec = Get(tab3).best_ec

====
